---- MODULE Spec2Model ----
(***************************************************************************)
(* Model of the crypt() hash-derivation engine of passwd-simulate           *)
(* (src/crypt/mod.rs, md5_crypt.rs, sha256_crypt.rs, sha512_crypt.rs).      *)
(*                                                                         *)
(* Byte strings are sequences of integers 0..255.  The setting parsers,    *)
(* the UTF-8 conversions, the canonical-setting echo, the stretch helper,  *)
(* the DS repetition count and the base-64 encoder are modelled as the     *)
(* code computes them.  The compression functions of the external md5 and  *)
(* sha2 crates are replaced by a rolling polynomial digest over the bytes  *)
(* fed to a context (it keeps update(a);update(b) = update(a ++ b)), and   *)
(* the iterated rounds loop is summarised by one digest of everything the  *)
(* loop reads, the iteration count included.                               *)
(***************************************************************************)
EXTENDS Integers, Sequences, FiniteSets, TLC

VARIABLES
    key, setting, overflow_checks, pc, res, res2,   \* a caller of crypt()
    call,                                           \* a call of a helper function
    shadow, store_res, cmd                          \* the shadow file and the passwd command

crypt_vars == <<key, setting, overflow_checks, pc, res, res2>>

store_vars == <<shadow, store_res, cmd>>

vars == <<key, setting, overflow_checks, pc, res, res2, call, shadow, store_res, cmd>>

(***************************************************************************)
(* Byte-slice helpers of the Rust standard library used by the parsers.    *)
(***************************************************************************)

\* <[u8]>::starts_with
starts_with(s, p) ==
    /\ Len(s) >= Len(p)
    /\ SubSeq(s, 1, Len(p)) = p

\* &s[n..]
slice_from(s, n) == SubSeq(s, n + 1, Len(s))

\* &s[..n]
slice_to(s, n) == SubSeq(s, 1, n)

\* position (1-based) of the first byte c in s at or after i, 0 when there
\* is none
find_from(s, c, i) ==
    LET hits == { j \in i .. Len(s) : s[j] = c }
    IN  IF hits = {} THEN 0
        ELSE CHOOSE j \in hits : \A h \in hits : j <= h

\* <[u8]>::splitn(n, |&c| c == b'$'), collected: at most n pieces, the last
\* piece holding the unsplit remainder
RECURSIVE splitn(_, _)
splitn(s, n) ==
    LET i == find_from(s, 36, 1) IN
    IF n <= 1 \/ i = 0 THEN <<s>>
    ELSE <<SubSeq(s, 1, i - 1)>> \o splitn(SubSeq(s, i + 1, Len(s)), n - 1)

\* continuation byte 0x80..0xBF
is_cont(c) == c >= 128 /\ c <= 191

\* length of the valid UTF-8 scalar starting at s[i], 0 when s[i] does not
\* start one (core::str::from_utf8 validation rules)
utf8_width_at(s, i) ==
    LET b0 == s[i]
        has(k) == i + k <= Len(s)
        at(k) == s[i + k]
    IN  IF b0 < 128 THEN 1
        ELSE IF b0 >= 194 /\ b0 <= 223
            THEN IF has(1) /\ is_cont(at(1)) THEN 2 ELSE 0
        ELSE IF b0 >= 224 /\ b0 <= 239
            THEN IF /\ has(2)
                    /\ is_cont(at(1)) /\ is_cont(at(2))
                    /\ (b0 = 224 => at(1) >= 160)
                    /\ (b0 = 237 => at(1) <= 159)
                 THEN 3 ELSE 0
        ELSE IF b0 >= 240 /\ b0 <= 244
            THEN IF /\ has(3)
                    /\ is_cont(at(1)) /\ is_cont(at(2)) /\ is_cont(at(3))
                    /\ (b0 = 240 => at(1) >= 144)
                    /\ (b0 = 244 => at(1) <= 143)
                 THEN 4 ELSE 0
        ELSE 0

RECURSIVE utf8_valid_from(_, _)
utf8_valid_from(s, i) ==
    IF i > Len(s) THEN TRUE
    ELSE LET w == utf8_width_at(s, i) IN
         IF w = 0 THEN FALSE ELSE utf8_valid_from(s, i + w)

\* std::str::from_utf8(s).is_ok()
from_utf8_ok(s) == utf8_valid_from(s, 1)

\* number of bytes String::from_utf8_lossy replaces by one U+FFFD at s[i]
\* (the maximal prefix of a well-formed sequence, at least one byte)
invalid_len_at(s, i) ==
    LET b0 == s[i]
        has(k) == i + k <= Len(s)
        at(k) == s[i + k]
        ok1 == /\ has(1) /\ is_cont(at(1))
               /\ (b0 = 224 => at(1) >= 160)
               /\ (b0 = 237 => at(1) <= 159)
               /\ (b0 = 240 => at(1) >= 144)
               /\ (b0 = 244 => at(1) <= 143)
        ok2 == has(2) /\ is_cont(at(2))
    IN  IF b0 >= 224 /\ b0 <= 239 THEN (IF ok1 THEN 2 ELSE 1)
        ELSE IF b0 >= 240 /\ b0 <= 244
            THEN (IF ~ok1 THEN 1 ELSE IF ~ok2 THEN 2 ELSE 3)
        ELSE 1

\* String::from_utf8_lossy(s), as the bytes of the resulting string
RECURSIVE lossy_from(_, _)
lossy_from(s, i) ==
    IF i > Len(s) THEN <<>>
    ELSE LET w == utf8_width_at(s, i) IN
         IF w > 0 THEN SubSeq(s, i, i + w - 1) \o lossy_from(s, i + w)
         ELSE <<239, 191, 189>> \o lossy_from(s, i + invalid_len_at(s, i))

from_utf8_lossy(s) == lossy_from(s, 1)

(***************************************************************************)
(* str::parse::<usize>() on a 64-bit target.  usize values do not fit the   *)
(* model checker's integers, so a parsed value is kept as its decimal      *)
(* numeral without leading zeros (zero is the empty numeral) and the       *)
(* checked multiply-add is the comparison of the extended numeral with     *)
(* usize::MAX.                                                             *)
(***************************************************************************)

\* usize::MAX = 18446744073709551615
USIZE_MAX == <<1, 8, 4, 4, 6, 7, 4, 4, 0, 7, 3, 7, 0, 9, 5, 5, 1, 6, 1, 5>>

\* the same numeral and its successor as ASCII text
USIZE_MAX_TEXT == [i \in 1 .. Len(USIZE_MAX) |-> USIZE_MAX[i] + 48]

USIZE_MAX_PLUS_ONE_TEXT == [USIZE_MAX_TEXT EXCEPT ![Len(USIZE_MAX)] = 54]

RECURSIVE lex_gt(_, _, _)
lex_gt(a, b, i) ==
    IF i > Len(a) THEN FALSE
    ELSE IF a[i] # b[i] THEN a[i] > b[i]
    ELSE lex_gt(a, b, i + 1)

\* a > b on numerals
num_gt(a, b) ==
    \/ Len(a) > Len(b)
    \/ Len(a) = Len(b) /\ lex_gt(a, b, 1)

RECURSIVE num_val(_)
num_val(a) ==
    IF a = <<>> THEN 0 ELSE 10 * num_val(SubSeq(a, 1, Len(a) - 1)) + a[Len(a)]

\* a > c and a < c for a numeral a and a constant c below 10^9
num_gt_const(a, c) == IF Len(a) > 9 THEN TRUE ELSE num_val(a) > c

num_lt_const(a, c) == IF Len(a) > 9 THEN FALSE ELSE num_val(a) < c

is_digit(c) == c >= 48 /\ c <= 57

\* the digit loop of from_str_radix: result = result * 10 + digit, checked
RECURSIVE parse_digits(_, _, _)
parse_digits(s, i, acc) ==
    IF i > Len(s) THEN [kind |-> "Ok", num |-> acc]
    ELSE IF ~is_digit(s[i]) THEN [kind |-> "InvalidDigit", num |-> <<>>]
    ELSE LET d == s[i] - 48
             next == IF acc = <<>> /\ d = 0 THEN <<>> ELSE acc \o <<d>>
         IN  IF num_gt(next, USIZE_MAX)
             THEN [kind |-> "PosOverflow", num |-> <<>>]
             ELSE parse_digits(s, i + 1, next)

\* <usize as FromStr>::from_str: an empty string is Empty, a lone sign is
\* InvalidDigit, one leading '+' is skipped, '-' is not a digit of an
\* unsigned type
parse_usize(s) ==
    IF s = <<>> THEN [kind |-> "Empty", num |-> <<>>]
    ELSE IF Len(s) = 1 /\ (s[1] = 43 \/ s[1] = 45)
        THEN [kind |-> "InvalidDigit", num |-> <<>>]
    ELSE IF s[1] = 43 THEN parse_digits(s, 2, <<>>)
    ELSE parse_digits(s, 1, <<>>)

(***************************************************************************)
(* Hash contexts.  A context is the length of the byte stream fed so far   *)
(* and a rolling digest of it; finalize spreads it over the output bytes,  *)
(* indexed from 0 as in the source.                                        *)
(***************************************************************************)

\* Md5::new(), Sha256::new(), Sha512::new()
new_ctx == [len |-> 0, val |-> 7]

\* one byte absorbed by the context
absorb(ctx, c) ==
    [len |-> ctx.len + 1, val |-> (ctx.val * 131 + c + 1) % 32749]

\* the bytes data[lo..hi] absorbed in order; the range is halved, and the
\* first half is evaluated before the second, to keep the evaluation shallow
RECURSIVE update_range(_, _, _, _)
update_range(ctx, data, lo, hi) ==
    IF lo > hi THEN ctx
    ELSE IF lo = hi THEN absorb(ctx, data[lo])
    ELSE LET mid == (lo + hi) \div 2
             left == update_range(ctx, data, lo, mid)
         IN  IF left.len >= 0 THEN update_range(left, data, mid + 1, hi) ELSE left

\* ctx.update(data) / chain_update(data)
update(ctx, data) == update_range(ctx, data, 1, Len(data))

\* ctx.finalize() of a hash with `size` output bytes
finalize(ctx, size) ==
    [j \in 0 .. size - 1 |->
        (ctx.val * (2 * j + 1) + 7 * ctx.len + 13 * j) % 256]

\* &md[..n] as a byte sequence
md_prefix(md, n) == [k \in 1 .. n |-> md[k - 1]]

\* for _ in 0..n { ctx.update(data) }; the n updates are run as two halves,
\* the first evaluated before the second, to keep the evaluation shallow
RECURSIVE update_times(_, _, _)
update_times(ctx, data, n) ==
    IF n <= 0 THEN ctx
    ELSE IF n = 1 THEN update(ctx, data)
    ELSE LET first == update_times(ctx, data, n \div 2)
         IN  IF first.len >= 0 THEN update_times(first, data, n - (n \div 2))
             ELSE first

(***************************************************************************)
(* crypt/mod.rs: alphabet, is_safe, to64, permute                           *)
(***************************************************************************)

\* b"./0123456789ABCDEFGHIJKLMNOPQRSTUVWXYZabcdefghijklmnopqrstuvwxyz",
\* indexed from 0
BINARY64 ==
    [i \in 0 .. 63 |->
        IF i = 0 THEN 46
        ELSE IF i = 1 THEN 47
        ELSE IF i <= 11 THEN 48 + (i - 2)
        ELSE IF i <= 37 THEN 65 + (i - 12)
        ELSE 97 + (i - 38)]

is_safe(c) == c # 36 /\ c # 58 /\ c # 10

all_safe(s) == \A i \in 1 .. Len(s) : is_safe(s[i])

\* (variant: most significant 6-bit digit first)
RECURSIVE to64_msb_first(_, _)
to64_msb_first(u, n) ==
    IF n > 0 THEN to64_msb_first(u \div 64, n - 1) \o <<BINARY64[u % 64]>>
    ELSE <<>>

\* while n > 0 { n -= 1; s.push(BINARY64[(u as usize) % 64]); u /= 64 }
RECURSIVE to64(_, _)
to64(u, n) ==
    IF n > 0 THEN <<BINARY64[u % 64]>> \o to64(u \div 64, n - 1)
    ELSE <<>>

\* ((md[p0] as u32) << 16) | ((md[p1] as u32) << 8) | (md[p2] as u32)
pack3(md, p) == md[p[1]] * 65536 + md[p[2]] * 256 + md[p[3]]

RECURSIVE permute_from(_, _, _)
permute_from(md, perm, i) ==
    IF i > Len(perm) THEN <<>>
    ELSE to64(pack3(md, perm[i]), 4) \o permute_from(md, perm, i + 1)

permute(md, perm) == permute_from(md, perm, 1)

(***************************************************************************)
(* Results.  st is "ok" (a hash string in out), "err" (an error value      *)
(* returned to the caller) or "panic" (the thread unwinds, nothing is      *)
(* returned).  The other fields record what the call did: the KDF it was   *)
(* routed to, whether a hashing step was run, the salt and round count     *)
(* handed to the KDF, the first byte of digest A and the number of times   *)
(* the salt was fed for DS (-1: not reached).                              *)
(***************************************************************************)

NoSteps == [hashed |-> FALSE, salt |-> <<>>, rounds |-> -1, a0 |-> -1, ds_count |-> -1]

Err(kdf, msg) ==
    [st |-> "err", out |-> <<>>, msg |-> msg, kdf |-> kdf, steps |-> NoSteps]

Panic(kdf, msg, steps) ==
    [st |-> "panic", out |-> <<>>, msg |-> msg, kdf |-> kdf, steps |-> steps]

Ok(kdf, out, steps) ==
    [st |-> "ok", out |-> out, msg |-> "", kdf |-> kdf, steps |-> steps]

(***************************************************************************)
(* crypt/sha256_crypt.rs and crypt/sha512_crypt.rs                          *)
(***************************************************************************)

SHA256_SALT_PREFIX == <<36, 53, 36>>

SHA512_SALT_PREFIX == <<36, 54, 36>>

\* b"rounds="
ROUNDS_PREFIX == <<114, 111, 117, 110, 100, 115, 61>>

SHA_KEY_MAX_LEN == 256

ROUNDS_MIN == 1000

ROUNDS_MAX == 9999999

ROUNDS_DEFAULT == 5000

SALT_MAX == 16

\* one test of the loop condition of hashmd and, when it holds, one pass of
\* the body: if i > size { update(&md[..size]); i -= size }.  fed lists the
\* slice lengths handed to update
hashmd_step(st, size) ==
    IF st.i > size THEN [fed |-> Append(st.fed, size), i |-> st.i - size]
    ELSE st

\* while i > size { .. }, cut after `fuel` passes; the passes are run as two
\* halves, the first evaluated before the second, to keep the evaluation
\* shallow for long keys
RECURSIVE hashmd_while(_, _, _)
hashmd_while(st, size, fuel) ==
    IF fuel <= 1 THEN hashmd_step(st, size)
    ELSE LET first == hashmd_while(st, size, fuel \div 2)
         IN  IF first.i > size THEN hashmd_while(first, size, fuel - (fuel \div 2))
             ELSE first

\* the slice lengths hashmd feeds: md[..size] while i > size, then md[..i];
\* i falls by size >= 1 in every pass, so n passes are enough
hashmd_chunks(n, size) ==
    LET last(r) == Append(r.fed, r.i)
    IN  last(hashmd_while([fed |-> <<>>, i |-> n], size, n))

\* the updates chunks[lo..hi] in order; the range is halved, and the first
\* half is evaluated before the second, to keep the evaluation shallow
RECURSIVE feed_chunks(_, _, _, _, _)
feed_chunks(s, md, chunks, lo, hi) ==
    IF lo > hi THEN s
    ELSE IF lo = hi THEN update(s, md_prefix(md, chunks[lo]))
    ELSE LET mid == (lo + hi) \div 2
             left == feed_chunks(s, md, chunks, lo, mid)
         IN  IF left.len >= 0 THEN feed_chunks(left, md, chunks, mid + 1, hi)
             ELSE left

\* hashmd(s, n, md) for a digest of `size` bytes
hashmd(s, n, md, size) ==
    LET feed(chunks) == feed_chunks(s, md, chunks, 1, Len(chunks))
    IN  feed(hashmd_chunks(n, size))

\* while i > 0 { if i % 2 != 0 { update(md) } else { update(key) }; i >>= 1 }
RECURSIVE sha_bits(_, _, _, _, _)
sha_bits(ctx, i, md, k, size) ==
    IF i > 0
    THEN LET fed == IF i % 2 # 0 THEN update(ctx, md_prefix(md, size))
                    ELSE update(ctx, k)
         IN  IF fed.len >= 0 THEN sha_bits(fed, i \div 2, md, k, size) ELSE fed
    ELSE ctx

\* 16 + md[0], computed in u8: above 255 the addition panics when the build
\* has overflow checks (debug profile) and wraps when it has not (release);
\* -1 stands for the panic
ds_repeat_count(md0, checks) ==
    IF 16 + md0 > 255
    THEN (IF checks THEN -1 ELSE (16 + md0) % 256)
    ELSE 16 + md0

\* for i in 0..rounds { ... md = ctx.finalize() }: every iteration hashes a
\* selection of md, DP stretched to key_len and DS[..salt_len]; summarised
\* as one digest of those inputs and of the iteration count
rounds_loop(md, dp, ds, klen, slen, rounds, size) ==
    LET c1 == update(new_ctx, md_prefix(md, size))
        c2 == IF c1.len >= 0 THEN hashmd(c1, klen, dp, size) ELSE c1
        c3 == update(c2, md_prefix(ds, slen))
        c4 == update(c3, <<rounds % 256, (rounds \div 256) % 256,
                           (rounds \div 65536) % 256>>)
    IN  finalize(c4, size)

\* the digest steps shared by sha256_crypt_clean and sha512_crypt_clean, up
\* to the final md; md is <<>> when the DS count panicked
sha_digest(k, salt, rounds, size, checks) ==
    LET key_len == Len(k)
        salt_len == Len(salt)
        \* (each value is evaluated before the step that uses it, as the
        \* code computes them)
        \* digest A from digest B (b) and the context fed with key and salt
        digest_a(b, ctx0) ==
            LET bits(ctx1) ==
                    IF ctx1.len >= 0
                    THEN finalize(sha_bits(ctx1, key_len, b, k, size), size)
                    ELSE b
            IN  bits(IF b[0] >= 0 /\ ctx0.len >= 0
                     THEN hashmd(ctx0, key_len, b, size) ELSE ctx0)
        \* DS (smd) repeated count times, then the rounds
        from_dp(a, kmd, count) ==
            LET from_ds(smd) ==
                    IF kmd[0] >= 0 /\ smd[0] >= 0
                    THEN rounds_loop(a, kmd, smd, key_len, salt_len, rounds, size)
                    ELSE <<>>
            IN  [a0 |-> a[0],
                 ds_count |-> count,
                 md |-> IF count < 0 THEN <<>>
                        ELSE from_ds(finalize(update_times(new_ctx, salt, count), size))]
        \* DP (kmd) and the DS count 16 + a[0]
        from_a(a) ==
            from_dp(a, finalize(update_times(new_ctx, k, key_len), size),
                    ds_repeat_count(a[0], checks))
    IN  from_a(digest_a(finalize(update(update(update(new_ctx, k), salt), k), size),
                        update(update(new_ctx, k), salt)))

SHA256_PERM ==
    << <<0, 10, 20>>, <<21, 1, 11>>, <<12, 22, 2>>, <<3, 13, 23>>,
       <<24, 4, 14>>, <<15, 25, 5>>, <<6, 16, 26>>, <<27, 7, 17>>,
       <<18, 28, 8>>, <<9, 19, 29>> >>

SHA512_PERM ==
    << <<0, 21, 42>>, <<22, 43, 1>>, <<44, 2, 23>>, <<3, 24, 45>>,
       <<25, 46, 4>>, <<47, 5, 26>>, <<6, 27, 48>>, <<28, 49, 7>>,
       <<50, 8, 29>>, <<9, 30, 51>>, <<31, 52, 10>>, <<53, 11, 32>>,
       <<12, 33, 54>>, <<34, 55, 13>>, <<56, 14, 35>>, <<15, 36, 57>>,
       <<37, 58, 16>>, <<59, 17, 38>>, <<18, 39, 60>>, <<40, 61, 19>>,
       <<62, 20, 41>> >>

\* (variant: the remainder group encodes md[31] alone)
sha256_encode_md31_only(md) ==
    permute(md, SHA256_PERM) \o to64(md[31], 2)

\* the encoding at the end of sha256_crypt_clean
sha256_encode(md) ==
    permute(md, SHA256_PERM) \o to64(md[31] * 256 + md[30], 3)

\* the encoding at the end of sha512_crypt_clean
sha512_encode(md) ==
    permute(md, SHA512_PERM) \o to64(md[63], 2)

\* Option<String>: [some |-> FALSE] is None; panicked marks the unwinding
\* out of the DS loop bound
clean_result(d, output) ==
    [panicked |-> d.ds_count < 0,
     some |-> d.ds_count >= 0 /\ from_utf8_ok(output),
     out |-> output, a0 |-> d.a0, ds_count |-> d.ds_count]

sha256_crypt_clean(k, salt, rounds, checks) ==
    LET encoded(d) == clean_result(d, IF d.ds_count < 0 THEN <<>> ELSE sha256_encode(d.md))
    IN  encoded(sha_digest(k, salt, rounds, 32, checks))

sha512_crypt_clean(k, salt, rounds, checks) ==
    LET encoded(d) == clean_result(d, IF d.ds_count < 0 THEN <<>> ELSE sha512_encode(d.md))
    IN  encoded(sha_digest(k, salt, rounds, 64, checks))

\* resolve_rounds with a value above ROUNDS_MAX clamped instead of rejected
resolve_rounds_clamp_max(text) ==
    LET parsed == parse_usize(text) IN
    IF ~from_utf8_ok(text) THEN [err |-> "invalid utf-8 sequence", rounds |-> -1]
    ELSE IF parsed.kind = "PosOverflow" THEN [err |-> "Too many rounds", rounds |-> -1]
    ELSE IF parsed.kind = "Empty"
        THEN [err |-> "cannot parse integer from empty string", rounds |-> -1]
    ELSE IF parsed.kind = "InvalidDigit"
        THEN [err |-> "invalid digit found in string", rounds |-> -1]
    ELSE IF num_lt_const(parsed.num, ROUNDS_MIN) THEN [err |-> "", rounds |-> ROUNDS_MIN]
    ELSE IF num_gt_const(parsed.num, ROUNDS_MAX) THEN [err |-> "", rounds |-> ROUNDS_MAX]
    ELSE [err |-> "", rounds |-> num_val(parsed.num)]

\* the rounds clause: from_utf8(..)?.parse::<usize>(), the PosOverflow arm,
\* then the clamp to ROUNDS_MIN and the rejection above ROUNDS_MAX
resolve_rounds(text) ==
    LET parsed == parse_usize(text) IN
    IF ~from_utf8_ok(text) THEN [err |-> "invalid utf-8 sequence", rounds |-> -1]
    ELSE IF parsed.kind = "PosOverflow" THEN [err |-> "Too many rounds", rounds |-> -1]
    ELSE IF parsed.kind = "Empty"
        THEN [err |-> "cannot parse integer from empty string", rounds |-> -1]
    ELSE IF parsed.kind = "InvalidDigit"
        THEN [err |-> "invalid digit found in string", rounds |-> -1]
    ELSE IF num_lt_const(parsed.num, ROUNDS_MIN) THEN [err |-> "", rounds |-> ROUNDS_MIN]
    ELSE IF num_gt_const(parsed.num, ROUNDS_MAX) THEN [err |-> "Too many rounds", rounds |-> -1]
    ELSE [err |-> "", rounds |-> num_val(parsed.num)]

\* let salt = if salt.len() > SALT_MAX { &salt[..SALT_MAX] } else { salt }
\* (the empty case is rejected by the caller)
truncate_salt(salt) ==
    IF Len(salt) > SALT_MAX THEN slice_to(salt, SALT_MAX) ELSE salt

\* setting.splitn(5, '$').take(if has_rounds { 4 } else { 3 }).skip(1)
setting_fields(s, has_rounds) ==
    LET pieces == splitn(s, 5)
        taken == IF has_rounds THEN 4 ELSE 3
        n == IF Len(pieces) < taken THEN Len(pieces) ELSE taken
    IN  SubSeq(pieces, 2, n)

\* .fold(String::new(), |r, s| r + "$" + s)
RECURSIVE fold_fields(_, _)
fold_fields(fields, i) ==
    IF i > Len(fields) THEN <<>>
    ELSE <<36>> \o fields[i] \o fold_fields(fields, i + 1)

\* sha256_crypt / sha512_crypt; the two functions differ in the prefix and
\* in the _clean function they call
sha_crypt(kdf, prefix, k, s, checks) ==
    IF Len(k) > SHA_KEY_MAX_LEN THEN Err(kdf, "Key is too long")
    ELSE IF ~starts_with(s, prefix) THEN Err(kdf, "Wrong prefix")
    ELSE
    LET settings == splitn(slice_from(s, Len(prefix)), 3)
        rounds_or_salt == settings[1]
        has_rounds == starts_with(rounds_or_salt, ROUNDS_PREFIX)
        rr == IF has_rounds
              THEN resolve_rounds(slice_from(rounds_or_salt, Len(ROUNDS_PREFIX)))
              ELSE [err |-> "", rounds |-> ROUNDS_DEFAULT]
    IN
    IF rr.err # "" THEN Err(kdf, rr.err)
    ELSE IF has_rounds /\ Len(settings) < 2 THEN Err(kdf, "Salt missing")
    ELSE
    LET salt_field == IF has_rounds THEN settings[2] ELSE rounds_or_salt
        salt == truncate_salt(salt_field)
        fields == setting_fields(s, has_rounds)
        setting_clean == fold_fields(fields, 1)
    IN
    IF salt = <<>> THEN Err(kdf, "Salt missing")
    ELSE IF ~all_safe(salt) THEN Err(kdf, "Unsafe character found in salt")
    ELSE IF \E i \in 1 .. Len(fields) : ~from_utf8_ok(fields[i])
        THEN Panic(kdf, "unwrap on an Err value", NoSteps)
    ELSE
    LET returned(c, steps) ==
            IF c.panicked THEN Panic(kdf, "attempt to add with overflow", steps)
            ELSE IF ~c.some THEN Err(kdf, "Failed generating hash")
            ELSE Ok(kdf, setting_clean \o <<36>> \o c.out, steps)
        finished(c) ==
            returned(c, [hashed |-> TRUE, salt |-> salt, rounds |-> rr.rounds,
                         a0 |-> c.a0, ds_count |-> c.ds_count])
    IN
    finished(IF kdf = "sha256" THEN sha256_crypt_clean(k, salt, rr.rounds, checks)
             ELSE sha512_crypt_clean(k, salt, rr.rounds, checks))

sha256_crypt(k, s, checks) == sha_crypt("sha256", SHA256_SALT_PREFIX, k, s, checks)

sha512_crypt(k, s, checks) == sha_crypt("sha512", SHA512_SALT_PREFIX, k, s, checks)

(***************************************************************************)
(* crypt/md5_crypt.rs                                                       *)
(***************************************************************************)

MD5_SALT_PREFIX == <<36, 49, 36>>

MD5_KEY_MAX_LEN == 30000

MD5_ROUNDS == 1000

MD5_PERM == << <<0, 6, 12>>, <<1, 7, 13>>, <<2, 8, 14>>, <<3, 9, 15>>, <<4, 10, 5>> >>

\* md5_crypt.rs has its own to64
RECURSIVE md5_to64(_, _)
md5_to64(u, n) ==
    IF n > 0 THEN <<BINARY64[u % 64]>> \o md5_to64(u \div 64, n - 1)
    ELSE <<>>

\* for perm in PERM { output.extend(&to64(.., 4)) }
RECURSIVE md5_perm_loop(_, _, _)
md5_perm_loop(md, perm, i) ==
    IF i > Len(perm) THEN <<>>
    ELSE md5_to64(pack3(md, perm[i]), 4) \o md5_perm_loop(md, perm, i + 1)

\* the encoding at the end of md5_crypt_clean
md5_encode(md) ==
    md5_perm_loop(md, MD5_PERM, 1) \o md5_to64(md[11], 2)

\* while i != 0 { if (i & 1) != 0 { update(&md[..1]) } else { update(&key[..1]) }; i >>= 1 }
RECURSIVE md5_bits(_, _, _, _)
md5_bits(ctx, i, md, k) ==
    IF i # 0
    THEN LET fed == IF i % 2 # 0 THEN update(ctx, md_prefix(md, 1))
                    ELSE update(ctx, slice_to(k, 1))
         IN  IF fed.len >= 0 THEN md5_bits(fed, i \div 2, md, k) ELSE fed
    ELSE ctx

\* for i in 0..1000 { ... md = ctx.finalize() }: every iteration hashes a
\* selection of md, key and salt; summarised as one digest of those inputs
\* and of the iteration count
md5_rounds_loop(md, k, salt) ==
    LET c1 == update(new_ctx, md_prefix(md, 16))
        c2 == update(update(c1, k), salt)
        c3 == update(c2, <<MD5_ROUNDS % 256, MD5_ROUNDS \div 256>>)
    IN  finalize(c3, 16)

md5_crypt_clean(k, salt) ==
    LET key_len == Len(k)
        \* (each value is evaluated before the step that uses it, as the
        \* code computes them)
        returned(output) == [some |-> from_utf8_ok(output), out |-> output]
        rounds_of(md2) ==
            returned(md5_encode(IF md2[0] >= 0 THEN md5_rounds_loop(md2, k, salt)
                                ELSE md2))
        \* md[0] = 0, then the loop over the bits of key_len
        bits(ctx1, md1) ==
            rounds_of(IF ctx1.len >= 0
                      THEN finalize(md5_bits(ctx1, key_len, md1, k), 16) ELSE md1)
        \* while i > output_size { update(md); i -= output_size }
        \* update(&md[..i]): the loop of hashmd, written inline
        stretched(md0, ctx0) ==
            bits(IF md0[0] >= 0 /\ ctx0.len >= 0 THEN hashmd(ctx0, key_len, md0, 16)
                 ELSE ctx0,
                 [md0 EXCEPT ![0] = 0])
    IN  stretched(finalize(update(update(update(new_ctx, k), salt), k), 16),
                  update(update(update(new_ctx, k), MD5_SALT_PREFIX), salt))

md5_crypt(k, s) ==
    IF Len(k) > MD5_KEY_MAX_LEN THEN Err("md5", "None")
    ELSE IF ~starts_with(s, MD5_SALT_PREFIX) THEN Err("md5", "None")
    ELSE
    LET salt_clean == splitn(slice_from(s, Len(MD5_SALT_PREFIX)), 2)[1]
    IN
    IF ~all_safe(salt_clean) THEN Err("md5", "None")
    ELSE
    LET steps == [hashed |-> TRUE, salt |-> salt_clean, rounds |-> MD5_ROUNDS,
                  a0 |-> -1, ds_count |-> -1]
        returned(c) ==
            IF ~c.some THEN Err("md5", "None")
            ELSE Ok("md5",
                    MD5_SALT_PREFIX \o from_utf8_lossy(salt_clean) \o <<36>> \o c.out,
                    steps)
    IN
    returned(md5_crypt_clean(k, salt_clean))

(***************************************************************************)
(* crypt/mod.rs: the dispatcher                                             *)
(***************************************************************************)

\* mod.rs names the MD5 prefix MD5_SETTING_PREFIX; md5_crypt.rs defines it as
\* MD5_SALT_PREFIX.  md5_crypt returns an Option: None is the error outcome.

\* crypt with the DES arm falling back to MD5-crypt with the setting as salt
crypt_des_fallback(k, s, checks) ==
    IF starts_with(s, MD5_SALT_PREFIX) THEN md5_crypt(k, s)
    ELSE IF starts_with(s, SHA256_SALT_PREFIX) THEN sha256_crypt(k, s, checks)
    ELSE IF starts_with(s, SHA512_SALT_PREFIX) THEN sha512_crypt(k, s, checks)
    ELSE md5_crypt(k, MD5_SALT_PREFIX \o s)

crypt(k, s, checks) ==
    IF starts_with(s, MD5_SALT_PREFIX) THEN md5_crypt(k, s)
    ELSE IF starts_with(s, SHA256_SALT_PREFIX) THEN sha256_crypt(k, s, checks)
    ELSE IF starts_with(s, SHA512_SALT_PREFIX) THEN sha512_crypt(k, s, checks)
    ELSE Err("none", "DES is no longer supported, use a modern hash instead.")

(***************************************************************************)
(* Inputs.  A setting is a byte string; the ones explored are assembled    *)
(* from a scheme prefix, a rounds clause, a salt field and trailing        *)
(* content, and handed to crypt as one string.                             *)
(***************************************************************************)

MaxKeyLen == 1

\* 'a' and a byte that is not valid UTF-8
KeyBytes == {97, 255}

Keys == UNION { [1 .. n -> KeyBytes] : n \in 0 .. MaxKeyLen }

\* "$1$", "$5$", "$6$", "$2$" (bcrypt), "ab" (DES), "", "$5"
Prefixes ==
    { <<36, 49, 36>>, <<36, 53, 36>>, <<36, 54, 36>>, <<36, 50, 36>>,
      <<97, 98>>, <<>>, <<36, 53>> }

RoundsText ==
    { <<57, 57, 57>>,                                   \* 999
      <<49, 48, 48, 48>>,                               \* 1000
      <<48, 49, 50, 51, 52>>,                           \* 01234
      <<57, 57, 57, 57, 57, 57, 57>>,                   \* 9999999
      <<49, 48, 48, 48, 48, 48, 48, 48>>,               \* 10000000
      USIZE_MAX_TEXT,                                   \* usize::MAX
      USIZE_MAX_PLUS_ONE_TEXT,                          \* usize::MAX + 1
      <<43, 49, 50, 51, 52>>,                           \* +1234
      <<45, 49, 50, 51, 52>>,                           \* -1234
      <<>>,                                             \* (empty)
      <<49, 50, 97>>,                                   \* 12a
      <<49, 255>> }                                     \* 1 0xFF

\* no clause, "rounds=<text>$", and the unterminated "rounds=1234"
RoundsClauses ==
    { <<>>, ROUNDS_PREFIX \o <<49, 50, 51, 52>> }
    \cup { ROUNDS_PREFIX \o t \o <<36>> : t \in RoundsText }

Salt16 == <<48, 49, 50, 51, 52, 53, 54, 55, 56, 57, 97, 98, 99, 100, 101, 102>>

Salts ==
    { <<>>,
      <<97, 98>>,                                       \* ab
      <<97, 98, 99, 100, 48, 49, 50, 51>>,              \* abcd0123
      <<97, 98, 99, 100, 48, 49, 50, 51, 52>>,          \* abcd01234
      Salt16,
      Salt16 \o <<103>>,                                \* 17 bytes
      Salt16 \o <<58>>,                                 \* ':' as 17th byte
      Salt16 \o <<255>>,                                \* 0xFF as 17th byte
      <<97, 58, 98>>,                                   \* a:b
      <<97, 10>>,                                       \* a\n
      <<255>>,                                          \* 0xFF
      <<195, 169>> }                                    \* U+00E9

\* nothing, a closing '$', a closing '$' and a digest-like tail
Tails == { <<>>, <<36>>, <<36, 46, 65, 65, 36, 112>> }

Settings ==
    { p \o r \o sl \o t : p \in Prefixes, r \in RoundsClauses, sl \in Salts, t \in Tails }

NoResult == [st |-> "none", out |-> <<>>, msg |-> "", kdf |-> "none", steps |-> NoSteps]

\* no helper function is being called
CallIdle == call = [fn |-> "none"]

\* no shadow file is in use and no passwd command runs
NoStoreRes == [op |-> "none", user |-> <<>>, password |-> <<>>, st |-> "none", msg |-> ""]

NoCmd == [pc |-> "none"]

StoreIdle ==
    /\ shadow = <<>>
    /\ store_res = NoStoreRes
    /\ cmd = NoCmd

\* no caller of crypt()
CryptIdle ==
    /\ key = <<>>
    /\ setting = <<>>
    /\ overflow_checks = FALSE
    /\ pc = "idle"
    /\ res = NoResult
    /\ res2 = NoResult

Init ==
    /\ key \in Keys
    /\ setting \in Settings
    /\ overflow_checks \in BOOLEAN
    /\ pc = "start"
    /\ res = NoResult
    /\ res2 = NoResult
    /\ CallIdle
    /\ StoreIdle

\* the caller derives a hash string from (key, setting)
Derive ==
    /\ pc = "start"
    /\ res' = crypt(key, setting, overflow_checks)
    /\ pc' = "derived"
    /\ UNCHANGED <<key, setting, overflow_checks, res2, call, store_vars>>

\* the caller feeds the produced hash string back as the setting
\* (tests::hash_test, store::verify_password)
Verify ==
    /\ pc = "derived"
    /\ res.st = "ok"
    /\ res2' = crypt(key, res.out, overflow_checks)
    /\ pc' = "verified"
    /\ UNCHANGED <<key, setting, overflow_checks, res, call, store_vars>>

Next == Derive \/ Verify

Spec == Init /\ [][Next]_vars

(***************************************************************************)
(* Keys at the length limits of the schemes, derived with well-formed      *)
(* settings.                                                                *)
(***************************************************************************)

\* 'a' and 'g'
KeyLenFill == {97, 103}

\* keys of KEY_MAX_LEN and KEY_MAX_LEN + 1 bytes of the SHA schemes and of
\* MD5-crypt
KeyLenKeys ==
    { [ix \in 1 .. n |-> fill] :
        n \in {SHA_KEY_MAX_LEN, SHA_KEY_MAX_LEN + 1}, fill \in KeyLenFill }
    \cup { [ix \in 1 .. n |-> 97] : n \in {MD5_KEY_MAX_LEN, MD5_KEY_MAX_LEN + 1} }

\* $1$ab, $1$abcd0123$, $5$ab, $5$rounds=1000$abcd0123$, $6$ab, $6$<16 bytes>
KeyLenSettings ==
    { MD5_SALT_PREFIX \o <<97, 98>>,
      MD5_SALT_PREFIX \o <<97, 98, 99, 100, 48, 49, 50, 51, 36>>,
      SHA256_SALT_PREFIX \o <<97, 98>>,
      SHA256_SALT_PREFIX \o ROUNDS_PREFIX \o <<49, 48, 48, 48, 36>>
          \o <<97, 98, 99, 100, 48, 49, 50, 51, 36>>,
      SHA512_SALT_PREFIX \o <<97, 98>>,
      SHA512_SALT_PREFIX \o Salt16 }

InitKeyLen ==
    /\ key \in KeyLenKeys
    /\ setting \in KeyLenSettings
    /\ overflow_checks \in BOOLEAN
    /\ pc = "start"
    /\ res = NoResult
    /\ res2 = NoResult
    /\ CallIdle
    /\ StoreIdle

SpecKeyLen == InitKeyLen /\ [][Next]_vars

(***************************************************************************)
(* Calls of to64, in both copies, on 24-bit values assembled from 6-bit    *)
(* digits.                                                                  *)
(***************************************************************************)

\* 6-bit digits: the lowest, the highest and two in between
To64Digits == {0, 1, 37, 63}

\* values below 2^24, by their four 6-bit digits
To64Values ==
    { d0 + 64 * d1 + 4096 * d2 + 262144 * d3 :
        d0 \in To64Digits, d1 \in To64Digits, d2 \in To64Digits, d3 \in To64Digits }

\* the n the encoders are called with
To64Lens == {2, 3, 4}

InitTo64 ==
    /\ call \in [fn : {"to64"}, u : To64Values, n : To64Lens, done : {FALSE},
                 out : {<<>>}, out_md5 : {<<>>}]
    /\ CryptIdle
    /\ StoreIdle

\* to64(u, n) of mod.rs and to64(u, n) of md5_crypt.rs return
To64Call ==
    /\ call.fn = "to64"
    /\ ~call.done
    /\ call' = [call EXCEPT !.done = TRUE,
                            !.out = to64(call.u, call.n),
                            !.out_md5 = md5_to64(call.u, call.n)]
    /\ UNCHANGED <<crypt_vars, store_vars>>

NextTo64 == To64Call

SpecTo64 == InitTo64 /\ [][NextTo64]_vars

(***************************************************************************)
(* The stretch helper, one loop iteration at a time: hashmd of             *)
(* sha256_crypt.rs (32) and sha512_crypt.rs (64) and the inline loop of    *)
(* md5_crypt_clean (output_size = 16).  fed lists the lengths of the       *)
(* slices of md handed to update, in order.                                 *)
(***************************************************************************)

MaxStretchLen == 130

\* Md5::output_size(), and the literals of the two hashmd functions
StretchSizes == {16, 32, 64}

\* let mut i = n
InitStretch ==
    /\ call \in { [fn |-> "hashmd", n |-> len, size |-> sz, i |-> len,
                   fed |-> <<>>, done |-> FALSE] :
                    len \in 0 .. MaxStretchLen, sz \in StretchSizes }
    /\ CryptIdle
    /\ StoreIdle

\* while i > size { s.update(&md[..size]); i -= size }
HashmdLoop ==
    /\ call.fn = "hashmd"
    /\ ~call.done
    /\ call.i > call.size
    /\ call' = [call EXCEPT !.fed = Append(@, call.size), !.i = @ - call.size]
    /\ UNCHANGED <<crypt_vars, store_vars>>

\* (variant: the last update takes the whole digest)
HashmdTailWhole ==
    /\ call.fn = "hashmd"
    /\ ~call.done
    /\ ~(call.i > call.size)
    /\ call' = [call EXCEPT !.fed = Append(@, call.size), !.done = TRUE]
    /\ UNCHANGED <<crypt_vars, store_vars>>

\* s.update(&md[..i]) after the loop
HashmdTail ==
    /\ call.fn = "hashmd"
    /\ ~call.done
    /\ ~(call.i > call.size)
    /\ call' = [call EXCEPT !.fed = Append(@, call.i), !.done = TRUE]
    /\ UNCHANGED <<crypt_vars, store_vars>>

NextStretch == HashmdLoop \/ HashmdTail

\* the function runs to its end once called
SpecStretch == InitStretch /\ [][NextStretch]_vars /\ WF_vars(NextStretch)

(***************************************************************************)
(* The final encodings of the three schemes, applied to a digest and to    *)
(* the same digest with one byte replaced.                                  *)
(***************************************************************************)

\* output size of Md5, Sha256 and Sha512
digest_size(scheme) ==
    IF scheme = "md5" THEN 16 ELSE IF scheme = "sha256" THEN 32 ELSE 64

\* the encoding at the end of <scheme>_crypt_clean
encode_digest(scheme, md) ==
    IF scheme = "md5" THEN md5_encode(md)
    ELSE IF scheme = "sha256" THEN sha256_encode(md)
    ELSE sha512_encode(md)

\* digests: all bytes 0, all bytes 255, and a mix of byte values
EncodeDigests(scheme) ==
    { [j \in 0 .. digest_size(scheme) - 1 |-> 0],
      [j \in 0 .. digest_size(scheme) - 1 |-> 255],
      [j \in 0 .. digest_size(scheme) - 1 |-> (37 * j + 11) % 256] }

\* the byte put in place of one digest byte
EncodeBytes == {0, 1, 128, 255}

InitEncode ==
    /\ call \in { [fn |-> "encode", scheme |-> sch, md |-> d, at |-> j, byte |-> v,
                   done |-> FALSE, out |-> <<>>, out2 |-> <<>>] :
                    sch \in {"md5", "sha256", "sha512"},
                    d \in UNION { EncodeDigests(x) : x \in {"md5", "sha256", "sha512"} },
                    j \in 0 .. 63, v \in EncodeBytes }
    /\ DOMAIN call.md = 0 .. digest_size(call.scheme) - 1
    /\ call.at < digest_size(call.scheme)
    /\ CryptIdle
    /\ StoreIdle

\* the output of the encoding for md, and for md with md[at] = byte
EncodeCall ==
    /\ call.fn = "encode"
    /\ ~call.done
    /\ call' = [call EXCEPT
                  !.done = TRUE,
                  !.out = encode_digest(call.scheme, call.md),
                  !.out2 = encode_digest(call.scheme,
                                         [call.md EXCEPT ![call.at] = call.byte])]
    /\ UNCHANGED <<crypt_vars, store_vars>>

NextEncode == EncodeCall

SpecEncode == InitEncode /\ [][NextEncode]_vars

(***************************************************************************)
(* store/shadow.rs: a record of the shadow file, its parser and its        *)
(* formatter.  A line is a byte string; an Option is [some |-> FALSE] or   *)
(* [some |-> TRUE, v |-> value].                                            *)
(***************************************************************************)

NoneV == [some |-> FALSE]

SomeV(x) == [some |-> TRUE, v |-> x]

\* s.split(c): the fields between the bytes c, at least one
RECURSIVE split_from(_, _, _)
split_from(s, c, i) ==
    LET p == find_from(s, c, i)
    IN  IF p = 0 THEN << SubSeq(s, i, Len(s)) >>
        ELSE << SubSeq(s, i, p - 1) >> \o split_from(s, c, p + 1)

split(s, c) == split_from(s, c, 1)

\* space, tab, line feed, carriage return
is_whitespace(c) == c \in {32, 9, 10, 13}

\* s.trim()
RECURSIVE trim(_)
trim(s) ==
    IF s # <<>> /\ is_whitespace(s[1]) THEN trim(Tail(s))
    ELSE IF s # <<>> /\ is_whitespace(s[Len(s)]) THEN trim(SubSeq(s, 1, Len(s) - 1))
    ELSE s

\* ShadowBuilder::str_to_owned
str_to_owned(input) == IF input # <<>> THEN SomeV(input) ELSE NoneV

\* <Shadow as FromStr>::from_str: of the nine fields only the username and
\* the hashed password are handed to the builder
from_str(s) ==
    LET s_split == split(trim(s), 58)
    IN  IF Len(s_split) < 9 THEN [ok |-> FALSE, msg |-> "Bad format."]
        ELSE LET username == str_to_owned(s_split[1])
             IN  IF ~username.some THEN [ok |-> FALSE, msg |-> "Unknown error."]
                 ELSE [ok |-> TRUE,
                       item |-> [username |-> username.v,
                                 hashed_password |-> str_to_owned(s_split[2]),
                                 last_updated |-> NoneV,
                                 min_age |-> NoneV,
                                 max_age |-> NoneV,
                                 warning_period |-> NoneV,
                                 inactivity_period |-> NoneV,
                                 account_exp_date |-> NoneV,
                                 reserved |-> NoneV]]

\* usize / i64 to_string() of a number that is not negative
RECURSIVE to_string(_)
to_string(x) ==
    IF x < 10 THEN <<48 + x>> ELSE to_string(x \div 10) \o <<48 + (x % 10)>>

\* .map(|x| x.to_string()).as_deref().unwrap_or("")
number_or_empty(opt) == IF opt.some THEN to_string(opt.v) ELSE <<>>

\* .as_deref().unwrap_or_default()
text_or_empty(opt) == IF opt.some THEN opt.v ELSE <<>>

\* <Shadow as Display>::fmt; dates are held as days since 1970-01-01
fmt(item) ==
    item.username \o <<58>> \o text_or_empty(item.hashed_password)
        \o <<58>> \o number_or_empty(item.last_updated)
        \o <<58>> \o number_or_empty(item.min_age)
        \o <<58>> \o number_or_empty(item.max_age)
        \o <<58>> \o number_or_empty(item.warning_period)
        \o <<58>> \o number_or_empty(item.inactivity_period)
        \o <<58>> \o number_or_empty(item.account_exp_date)
        \o <<58>> \o text_or_empty(item.reserved)

\* Shadow::update_password; today is Local::now().date_naive()
Shadow_update_password(item, new_hashed_password, today) ==
    [item EXCEPT !.hashed_password = new_hashed_password,
                 !.last_updated = SomeV(today)]

(***************************************************************************)
(* store/mod.rs.  The shadow file is the sequence of its lines.  Every     *)
(* function returns [st, msg, file]: st is "ok", "err" (msg is the error)  *)
(* or "panic", and file is the shadow file the call leaves behind.          *)
(***************************************************************************)

StoreOk(file) == [st |-> "ok", msg |-> "", file |-> file]

StoreErr(msg, file) == [st |-> "err", msg |-> msg, file |-> file]

StorePanic(file) == [st |-> "panic", msg |-> "unwrap on an Err value", file |-> file]

NO_SUCH_USER == "No such user in database"

\* read_shadow: every line is parsed and unwrapped
read_shadow(file) ==
    IF \A i \in 1 .. Len(file) : from_str(file[i]).ok
    THEN [st |-> "ok", items |-> [i \in 1 .. Len(file) |-> from_str(file[i]).item]]
    ELSE [st |-> "panic", items |-> <<>>]

\* write_shadow: the file is truncated and one formatted item is written
\* per writeln!
RECURSIVE write_from(_, _)
write_from(shadow_items, i) ==
    IF i > Len(shadow_items) THEN <<>>
    ELSE split(fmt(shadow_items[i]), 10) \o write_from(shadow_items, i + 1)

write_shadow(shadow_items) == write_from(shadow_items, 1)

\* .find(|item| item.username == username): the position of the first
\* match, 0 for None
RECURSIVE find_item(_, _, _)
find_item(shadow_items, username, i) ==
    IF i > Len(shadow_items) THEN 0
    ELSE IF shadow_items[i].username = username THEN i
    ELSE find_item(shadow_items, username, i + 1)

find(shadow_items, username) == find_item(shadow_items, username, 1)

is_valid_user(file, username) ==
    LET r == read_shadow(file)
    IN  IF r.st # "ok" THEN [st |-> "panic", value |-> FALSE]
        ELSE [st |-> "ok", value |-> find(r.items, username) # 0]

user_has_password(file, username) ==
    LET r == read_shadow(file)
        i == find(r.items, username)
    IN  IF r.st # "ok" THEN [st |-> "panic", msg |-> "", value |-> FALSE]
        ELSE IF i = 0 THEN [st |-> "err", msg |-> NO_SUCH_USER, value |-> FALSE]
        ELSE [st |-> "ok", msg |-> "", value |-> r.items[i].hashed_password.some]

verify_password(file, username, password, checks) ==
    LET r == read_shadow(file)
        i == find(r.items, username)
    IN  IF r.st # "ok" THEN StorePanic(file)
        ELSE IF i = 0 THEN StoreErr(NO_SUCH_USER, file)
        ELSE
        LET hashed_password == r.items[i].hashed_password
        IN  IF ~hashed_password.some THEN StoreOk(file)
            ELSE IF starts_with(hashed_password.v, <<33>>)
            THEN StoreErr("Password mismatch.", file)
            ELSE
            LET compared(c) ==
                    IF c.st = "panic" THEN StorePanic(file)
                    ELSE IF c.st = "err" THEN StoreErr(c.msg, file)
                    ELSE IF c.out = hashed_password.v THEN StoreOk(file)
                    ELSE StoreErr("Password mismatch.", file)
            IN  compared(crypt(password, hashed_password.v, checks))

\* the read-modify-write shared by the four modifying functions: the first
\* record of the user is replaced by its changed form (changed[i]) and the
\* whole file is rewritten
modify_shadow(file, username, changed) ==
    LET r == read_shadow(file)
        i == find(r.items, username)
    IN  IF r.st # "ok" THEN StorePanic(file)
        ELSE IF i = 0 THEN StoreErr(NO_SUCH_USER, file)
        ELSE StoreOk(write_shadow([r.items EXCEPT ![i] = changed[i]]))

update_password(file, username, hashed_password, today) ==
    LET r == read_shadow(file)
    IN  modify_shadow(file, username,
            [i \in 1 .. Len(r.items) |->
                Shadow_update_password(r.items[i], SomeV(hashed_password), today)])

\* (variant: a locked account is given one more '!')
lock_item_again(item, today) ==
    IF ~item.hashed_password.some
    THEN Shadow_update_password(item, SomeV(<<33>>), today)
    ELSE Shadow_update_password(item, SomeV(<<33>> \o item.hashed_password.v), today)

\* the match of lock_account
lock_item(item, today) ==
    IF ~item.hashed_password.some
    THEN Shadow_update_password(item, SomeV(<<33>>), today)
    ELSE IF ~starts_with(item.hashed_password.v, <<33>>)
    THEN Shadow_update_password(item, SomeV(<<33>> \o item.hashed_password.v), today)
    ELSE item

lock_account(file, username, today) ==
    LET r == read_shadow(file)
    IN  modify_shadow(file, username,
            [i \in 1 .. Len(r.items) |-> lock_item(r.items[i], today)])

\* s.trim_start_matches('!')
RECURSIVE trim_start_matches(_, _)
trim_start_matches(s, c) ==
    IF s # <<>> /\ s[1] = c THEN trim_start_matches(Tail(s), c) ELSE s

\* the match of unlock_account
unlock_item(item, today) ==
    IF item.hashed_password.some /\ starts_with(item.hashed_password.v, <<33>>)
    THEN Shadow_update_password(item,
             SomeV(trim_start_matches(item.hashed_password.v, 33)), today)
    ELSE item

unlock_account(file, username, today) ==
    LET r == read_shadow(file)
    IN  modify_shadow(file, username,
            [i \in 1 .. Len(r.items) |-> unlock_item(r.items[i], today)])

delete_password(file, username, today) ==
    LET r == read_shadow(file)
    IN  modify_shadow(file, username,
            [i \in 1 .. Len(r.items) |->
                Shadow_update_password(r.items[i], NoneV, today)])

(***************************************************************************)
(* Callers of the store functions on a shadow file of two records.         *)
(***************************************************************************)

\* "alice", "bob"
ALICE == <<97, 108, 105, 99, 101>>

BOB == <<98, 111, 98>>

\* the names the functions are called with: the two above and "eve"
StoreUsers == { ALICE, BOB, <<101, 118, 101>> }

\* "a", "b" and the empty password
StorePasswords == { <<97>>, <<98>>, <<>> }

\* hash strings of the passwords "a" and "b": crypt("a", "$5$ab") and
\* crypt("b", "$1$ab")
StoreHashA == crypt(<<97>>, SHA256_SALT_PREFIX \o <<97, 98>>, FALSE).out

StoreHashB == crypt(<<98>>, MD5_SALT_PREFIX \o <<97, 98>>, FALSE).out

\* hashed-password fields of the initial file: none, a hash, a locked hash,
\* a lock without a hash
StoreHashedFields ==
    { <<>>, StoreHashA, <<33>> \o StoreHashA, <<33>> }

\* fields 3 to 9 of a line: "19000:0:99999:7:::" and "::::::"
StoreAgeingFields ==
    { <<49, 57, 48, 48, 48, 58, 48, 58, 57, 57, 57, 57, 57, 58, 55, 58, 58, 58>>,
      <<58, 58, 58, 58, 58, 58>> }

StoreLine(username, hashed, ageing) ==
    username \o <<58>> \o hashed \o <<58>> \o ageing

\* alice's record followed by bob's, or two records named alice
StoreFiles ==
    { << StoreLine(ALICE, h1, a), StoreLine(BOB, h2, a) >> :
        h1 \in StoreHashedFields, h2 \in StoreHashedFields, a \in StoreAgeingFields }
    \cup
    { << StoreLine(ALICE, h1, a), StoreLine(ALICE, h2, a) >> :
        h1 \in StoreHashedFields, h2 \in {<<>>, StoreHashA}, a \in StoreAgeingFields }

\* Local::now().date_naive(), in days since 1970-01-01
Days == {20394}

InitStore ==
    /\ shadow \in StoreFiles
    /\ store_res = NoStoreRes
    /\ cmd = NoCmd
    /\ key = <<>>
    /\ setting = <<>>
    /\ overflow_checks = FALSE
    /\ pc = "store"
    /\ res = NoResult
    /\ res2 = NoResult
    /\ CallIdle

\* a store function returned r to its caller
StoreReturn(op, username, password, r) ==
    /\ shadow' = r.file
    /\ store_res' = [op |-> op, user |-> username, password |-> password,
                     st |-> r.st, msg |-> r.msg]
    /\ UNCHANGED <<crypt_vars, call, cmd>>

VerifyPassword ==
    /\ pc = "store"
    /\ \E username \in StoreUsers, password \in StorePasswords :
          StoreReturn("verify", username, password,
                      verify_password(shadow, username, password, overflow_checks))

UpdatePassword ==
    /\ pc = "store"
    /\ \E username \in StoreUsers, hashed \in {StoreHashA, StoreHashB}, today \in Days :
          StoreReturn("update", username, <<>>,
                      update_password(shadow, username, hashed, today))

LockAccount ==
    /\ pc = "store"
    /\ \E username \in StoreUsers, today \in Days :
          StoreReturn("lock", username, <<>>, lock_account(shadow, username, today))

UnlockAccount ==
    /\ pc = "store"
    /\ \E username \in StoreUsers, today \in Days :
          StoreReturn("unlock", username, <<>>, unlock_account(shadow, username, today))

DeletePassword ==
    /\ pc = "store"
    /\ \E username \in StoreUsers, today \in Days :
          StoreReturn("delete", username, <<>>, delete_password(shadow, username, today))

NextStore ==
    \/ VerifyPassword
    \/ UpdatePassword
    \/ LockAccount
    \/ UnlockAccount
    \/ DeletePassword

SpecStore == InitStore /\ [][NextStore]_vars

(***************************************************************************)
(* passwd.rs: one run of the passwd command.  cmd holds the arguments      *)
(* (username, operation), the caller's uid, the place the run has reached  *)
(* (pc: "start", "auth", "operate", "exit"), whether verify_password has   *)
(* returned Ok in the run, the number of times the run has rewritten the   *)
(* shadow file, the file the run started with, and how main ended.         *)
(***************************************************************************)

\* format!("user '{}' does not exist", username), as its parts
does_not_exist(username) == << "user '", username, "' does not exist" >>

CmdExit(c, st, msg) == [c EXCEPT !.pc = "exit", !.st = st, !.msg = msg]

\* if is_valid_user(&username)? { Err(..)?; }
check_user(c, file) ==
    LET valid == is_valid_user(file, c.username)
    IN  IF valid.st = "panic" THEN CmdExit(c, "panic", <<"unwrap on an Err value">>)
        ELSE IF valid.value THEN CmdExit(c, "err", does_not_exist(c.username))
        ELSE [c EXCEPT !.pc = "auth"]

\* if get_current_uid() != 0 && user_has_password(&username)? { prompt; verify }
authenticate(c, file, old_password, checks) ==
    IF c.uid = 0 THEN [c EXCEPT !.pc = "operate"]
    ELSE
    LET has == user_has_password(file, c.username)
    IN  IF has.st = "panic" THEN CmdExit(c, "panic", <<"unwrap on an Err value">>)
        ELSE IF has.st = "err" THEN CmdExit(c, "err", <<has.msg>>)
        ELSE IF ~has.value THEN [c EXCEPT !.pc = "operate"]
        ELSE
        LET checked(v) ==
                IF v.st = "panic" THEN CmdExit(c, "panic", <<"unwrap on an Err value">>)
                ELSE IF v.st = "err" THEN CmdExit(c, "err", <<"Authentication failure.">>)
                ELSE [c EXCEPT !.pc = "operate", !.verified = TRUE]
        IN  checked(verify_password(file, c.username, old_password, checks))

\* a store function called by main returned r: main ends with its result
after_store(c, r) ==
    [cmd |-> CmdExit([c EXCEPT !.writes = IF r.st = "ok" THEN @ + 1 ELSE @],
                     r.st, <<r.msg>>),
     file |-> r.file]

\* crypt(password, "$6$" ++ make_salt(16)) and update_password
change_password(c, file, password, password_confirm, salt, today, checks) ==
    IF password # password_confirm
    THEN [cmd |-> CmdExit(c, "err", <<"Sorry, passwords do not match.">>), file |-> file]
    ELSE IF password = <<>>
    THEN [cmd |-> CmdExit(c, "err", <<"No password has been supplied.">>), file |-> file]
    ELSE
    LET stored(encrypted) ==
            IF encrypted.st = "panic"
            THEN [cmd |-> CmdExit(c, "panic", <<encrypted.msg>>), file |-> file]
            ELSE IF encrypted.st = "err"
            THEN [cmd |-> CmdExit(c, "err", <<"Encryption failed">>), file |-> file]
            ELSE after_store(c, update_password(file, c.username, encrypted.out, today))
    IN  stored(crypt(password, SHA512_SALT_PREFIX \o salt, checks))

\* match args.operation { .. }
operate(c, file, password, password_confirm, salt, today, checks) ==
    IF c.operation = "lock" THEN after_store(c, lock_account(file, c.username, today))
    ELSE IF c.operation = "unlock"
    THEN after_store(c, unlock_account(file, c.username, today))
    ELSE IF c.operation = "delete"
    THEN after_store(c, delete_password(file, c.username, today))
    ELSE change_password(c, file, password, password_confirm, salt, today, checks)

\* get_current_uid(): root and an ordinary user
Uids == {0, 1000}

\* --lock, --unlock, --delete, or none of them
Operations == {"lock", "unlock", "delete", "change"}

\* make_salt(16, thread_rng()): 16 characters of BINARY64
MadeSalts == { Salt16 }

\* the shadow file of a run: alice's record followed by bob's
PasswdFiles ==
    { << StoreLine(ALICE, h1, a), StoreLine(BOB, h2, a) >> :
        h1 \in {<<>>, StoreHashA}, h2 \in {<<>>, <<33>> \o StoreHashA},
        a \in StoreAgeingFields }

InitPasswd ==
    /\ shadow \in PasswdFiles
    /\ store_res = NoStoreRes
    /\ cmd \in { [pc |-> "start", username |-> u, uid |-> id, operation |-> op,
                  verified |-> FALSE, writes |-> 0, before |-> shadow,
                  st |-> "running", msg |-> <<>>] :
                   u \in StoreUsers, id \in Uids, op \in Operations }
    /\ key = <<>>
    /\ setting = <<>>
    /\ overflow_checks \in BOOLEAN
    /\ pc = "passwd"
    /\ res = NoResult
    /\ res2 = NoResult
    /\ CallIdle

\* main, lines 58-60
CmdCheckUser ==
    /\ cmd.pc = "start"
    /\ cmd' = check_user(cmd, shadow)
    /\ UNCHANGED <<crypt_vars, call, shadow, store_res>>

\* main, lines 64-68
CmdAuthenticate ==
    /\ cmd.pc = "auth"
    /\ \E old_password \in StorePasswords :
          cmd' = authenticate(cmd, shadow, old_password, overflow_checks)
    /\ UNCHANGED <<crypt_vars, call, shadow, store_res>>

\* main, lines 70-92
CmdOperate ==
    /\ cmd.pc = "operate"
    /\ \E password \in StorePasswords, password_confirm \in StorePasswords,
          salt \in MadeSalts, today \in Days :
          LET r == operate(cmd, shadow, password, password_confirm, salt, today,
                           overflow_checks)
          IN  /\ cmd' = r.cmd
              /\ shadow' = r.file
    /\ UNCHANGED <<crypt_vars, call, store_res>>

NextPasswd == CmdCheckUser \/ CmdAuthenticate \/ CmdOperate

SpecPasswd == InitPasswd /\ [][NextPasswd]_vars

(***************************************************************************)
(* Reading a setting or a hash string by its '$'-delimited fields, as the   *)
(* specification describes them: $<id>$[rounds=<N>$]<salt>[$...].          *)
(***************************************************************************)

AllFields(s) == splitn(s, Len(s) + 1)

Supported(s) ==
    \/ starts_with(s, <<36, 49, 36>>)
    \/ starts_with(s, <<36, 53, 36>>)
    \/ starts_with(s, <<36, 54, 36>>)

IsSha(s) == starts_with(s, <<36, 53, 36>>) \/ starts_with(s, <<36, 54, 36>>)

IsMd5(s) == starts_with(s, <<36, 49, 36>>)

\* a SHA setting with a rounds clause
HasRoundsClause(s) == IsSha(s) /\ starts_with(AllFields(s)[3], ROUNDS_PREFIX)

\* the text between "rounds=" and the next '$' (or the end)
RoundsTextOf(s) == slice_from(AllFields(s)[3], Len(ROUNDS_PREFIX))

\* the rounds clause is closed by a '$'
RoundsTerminated(s) == Len(AllFields(s)) >= 4

\* the salt field, <<>> when the string ends before it
SaltFieldOf(s) ==
    LET f == AllFields(s) IN
    IF HasRoundsClause(s) THEN (IF Len(f) >= 4 THEN f[4] ELSE <<>>)
    ELSE f[3]

\* number of fields before the digest: id and salt, and the rounds clause
SettingFieldCount(s) == IF HasRoundsClause(s) THEN 3 ELSE 2

SaltLimit(s) == IF IsMd5(s) THEN 8 ELSE 16

DigitsOnly(t) == t # <<>> /\ \A i \in 1 .. Len(t) : t[i] >= 48 /\ t[i] <= 57

RECURSIVE StripZeros(_)
StripZeros(t) ==
    IF t # <<>> /\ t[1] = 48 THEN StripZeros(Tail(t)) ELSE t

Below1000(t) == DigitsOnly(t) /\ Len(StripZeros(t)) <= 3

Above9999999(t) == DigitsOnly(t) /\ Len(StripZeros(t)) > 7

Is9999999(t) == DigitsOnly(t) /\ StripZeros(t) = <<57, 57, 57, 57, 57, 57, 57>>

Unsafe(t) == \E i \in 1 .. Len(t) : t[i] \in {36, 58, 10}

Derived == pc \in {"derived", "verified"}

\* length of the encoded digest of each scheme
DigestChars(s) ==
    IF IsMd5(s) THEN 22
    ELSE IF starts_with(s, <<36, 53, 36>>) THEN 43
    ELSE 86

(***************************************************************************)
(* Claims                                                                   *)
(***************************************************************************)

\* C1: round trip.  Whenever derive succeeded on (key, setting), deriving
\* again with the produced hash string as the setting succeeds and returns
\* the same hash string.
C1_RoundTrip ==
    pc = "verified" => (res2.st = "ok" /\ res2.out = res.out)

\* C2: salt truncation.  The salt handed to the KDF is the salt field of the
\* setting cut to the scheme's maximum (8 for MD5-crypt, 16 for SHA-crypt),
\* and the salt field of every returned hash string is that same cut salt,
\* so it is never longer than the maximum.
C2_SaltTruncated ==
    (Derived /\ res.st = "ok") =>
        LET field == SaltFieldOf(setting)
            limit == SaltLimit(setting)
            cut == IF Len(field) > limit THEN SubSeq(field, 1, limit) ELSE field
        IN  /\ res.steps.salt = cut
            /\ SaltFieldOf(res.out) = cut
            /\ Len(SaltFieldOf(res.out)) <= limit

\* C3: rounds clamping in the output.  When a SHA setting carries rounds=N
\* with N below 1000, the hash is computed with 1000 rounds and the returned
\* hash string reads rounds=1000.
C3_RoundsClampedInOutput ==
    (/\ Derived
     /\ res.st = "ok"
     /\ HasRoundsClause(setting)
     /\ Below1000(RoundsTextOf(setting))) =>
        /\ res.steps.rounds = 1000
        /\ HasRoundsClause(res.out)
        /\ RoundsTextOf(res.out) = <<49, 48, 48, 48>>

\* C4: a returned hash string holds no ':' and no newline, and '$' only as
\* the delimiter of its fields (id, optional rounds clause, salt, digest); a
\* setting whose salt field holds ':' or newline is rejected with an error
\* before any hashing.
C4_OutputEmbeddable ==
    Derived =>
        /\ res.st = "ok" =>
              /\ \A i \in 1 .. Len(res.out) : res.out[i] \notin {58, 10}
              /\ Len(AllFields(res.out)) = SettingFieldCount(res.out) + 2
        /\ (Supported(setting) /\ Unsafe(SaltFieldOf(setting))) =>
              (res.st = "err" /\ ~res.steps.hashed)

\* C5: derive ends with a complete hash string or with an error value
\* returned to the caller; it never panics and never yields partial output.
C5_OkOrError ==
    Derived =>
        /\ res.st \in {"ok", "err"}
        /\ res.st = "err" => res.out = <<>>
        /\ res.st = "ok" =>
              Len(AllFields(res.out)[Len(AllFields(res.out))]) = DigestChars(setting)

\* C6: in SHA-256/512-crypt the salt is fed exactly 16 + md[0] times to form
\* DS, for every first byte md[0] of digest A, 240..255 included: the count
\* is the mathematical sum, it neither wraps modulo 256 nor fails.
C6_DsRepeatCount ==
    (Derived /\ res.steps.a0 >= 0) => res.steps.ds_count = 16 + res.steps.a0

\* C7: a setting of a supported scheme whose salt field is empty or missing
\* is rejected with an error and no hash is produced.
C7_EmptySaltRejected ==
    (Derived /\ Supported(setting) /\ SaltFieldOf(setting) = <<>>) =>
        (res.st = "err" /\ res.out = <<>>)

\* C8: a rounds clause above 9,999,999 (a value overflowing usize included)
\* makes derive fail with an error before any hashing, it is never clamped;
\* exactly 9,999,999 is not rejected for its rounds and is the round count
\* the KDF is run with.
C8_RoundsAboveMaxRejected ==
    (Derived /\ HasRoundsClause(setting)) =>
        LET text == RoundsTextOf(setting) IN
        /\ Above9999999(text) => (res.st = "err" /\ ~res.steps.hashed)
        /\ Is9999999(text) =>
              /\ res.st = "err" =>
                    res.msg \in {"Salt missing", "Unsafe character found in salt"}
              /\ res.steps.hashed => res.steps.rounds = 9999999

\* C8 witness: rounds=10000000 with a valid salt was rejected
C8_Witness ==
    /\ Derived
    /\ HasRoundsClause(setting)
    /\ Above9999999(RoundsTextOf(setting))
    /\ RoundsTextOf(setting) = <<49, 48, 48, 48, 48, 48, 48, 48>>
    /\ SaltFieldOf(setting) = Salt16
    /\ res.st = "err"
    /\ res.msg = "Too many rounds"

\* C9: a rounds clause is accepted only when its text is a non-empty string
\* of decimal digits closed by '$'; any other text makes derive fail with an
\* error and no hash is produced.
C9_RoundsSyntax ==
    (/\ Derived
     /\ HasRoundsClause(setting)
     /\ ~(DigitsOnly(RoundsTextOf(setting)) /\ RoundsTerminated(setting))) =>
        (res.st = "err" /\ ~res.steps.hashed)

\* C10: a setting that does not begin with $1$, $5$ or $6$ gets the
\* unsupported-scheme error, no KDF is entered and no hash is produced; a
\* setting with one of the three prefixes is routed to the KDF of that
\* prefix only, and a hash it produces carries that prefix.
C10_UnknownSchemeRejected ==
    Derived =>
        /\ ~Supported(setting) =>
              /\ res.st = "err"
              /\ res.kdf = "none"
              /\ res.msg = "DES is no longer supported, use a modern hash instead."
              /\ ~res.steps.hashed
              /\ res.out = <<>>
        /\ IsMd5(setting) => res.kdf = "md5"
        /\ starts_with(setting, <<36, 53, 36>>) => res.kdf = "sha256"
        /\ starts_with(setting, <<36, 54, 36>>) => res.kdf = "sha512"
        /\ (Supported(setting) /\ res.st = "ok") =>
              SubSeq(res.out, 1, 3) = SubSeq(setting, 1, 3)

\* C10 witness: a bcrypt-prefixed setting was rejected
C10_Witness ==
    /\ Derived
    /\ starts_with(setting, <<36, 50, 36>>)
    /\ res.st = "err"
    /\ res.kdf = "none"

\* the key-length limit of the scheme a setting selects
KeyMaxLen(s) == IF IsMd5(s) THEN MD5_KEY_MAX_LEN ELSE SHA_KEY_MAX_LEN

\* a setting of a supported scheme with a non-empty salt of safe bytes and,
\* when it has a rounds clause, a closed one holding a number up to 9999999
WellFormed(s) ==
    /\ Supported(s)
    /\ SaltFieldOf(s) # <<>>
    /\ all_safe(SaltFieldOf(s))
    /\ from_utf8_ok(SaltFieldOf(s))
    /\ HasRoundsClause(s) =>
          /\ RoundsTerminated(s)
          /\ DigitsOnly(RoundsTextOf(s))
          /\ ~Above9999999(RoundsTextOf(s))

\* C11: key-length boundary.  With a well-formed setting, a key of exactly
\* the scheme's maximum length (30000 bytes for MD5-crypt, 256 for the SHA
\* schemes) succeeds, and a key one byte longer fails with the key-too-long
\* error, before any hashing step.
C11_KeyLengthBoundary ==
    (Derived /\ WellFormed(setting)) =>
        /\ Len(key) = KeyMaxLen(setting) => res.st = "ok"
        /\ Len(key) = KeyMaxLen(setting) + 1 =>
              /\ res.st = "err"
              /\ ~res.steps.hashed
              /\ IsSha(setting) => res.msg = "Key is too long"

\* "./0123456789ABCDEFGHIJKLMNOPQRSTUVWXYZabcdefghijklmnopqrstuvwxyz"
ALPHABET ==
    <<46, 47, 48, 49, 50, 51, 52, 53, 54, 55, 56, 57,
      65, 66, 67, 68, 69, 70, 71, 72, 73, 74, 75, 76, 77,
      78, 79, 80, 81, 82, 83, 84, 85, 86, 87, 88, 89, 90,
      97, 98, 99, 100, 101, 102, 103, 104, 105, 106, 107, 108, 109,
      110, 111, 112, 113, 114, 115, 116, 117, 118, 119, 120, 121, 122>>

RECURSIVE Pow64(_)
Pow64(i) == IF i = 0 THEN 1 ELSE 64 * Pow64(i - 1)

\* C12: to64(u, n) returns exactly n characters, the i-th (from 0) being
\* ALPHABET[(u div 64^i) mod 64], least significant 6-bit digit first, for
\* u below 2^24 and n in {2, 3, 4}; the copies of to64 in mod.rs and in
\* md5_crypt.rs return the same string.
C12_To64 ==
    (call.fn = "to64" /\ call.done) =>
        /\ Len(call.out) = call.n
        /\ \A i \in 0 .. call.n - 1 :
              call.out[i + 1] = ALPHABET[((call.u \div Pow64(i)) % 64) + 1]
        /\ call.out_md5 = call.out

\* C12 witness: a value with four distinct non-zero digits was encoded to
\* four characters
C12_Witness ==
    /\ call.fn = "to64"
    /\ call.done
    /\ call.n = 4
    /\ call.u = 63 + 64 * 37 + 4096 * 1 + 262144 * 63
    /\ call.out = <<122, 90, 47, 122>>

RECURSIVE SumSeq(_)
SumSeq(q) == IF q = <<>> THEN 0 ELSE Head(q) + SumSeq(Tail(q))

\* C13: stretch-to-length.  For every target length n >= 0 the stretch loop
\* terminates, having fed exactly n bytes in total, as zero or more full
\* digest-size slices followed by one last slice of at most digest-size
\* bytes, no slice reaching past the digest; the slice lengths are the ones
\* the KDFs of the model feed.
C13_StretchToLength ==
    /\ [](call.fn = "hashmd" =>
            /\ \A j \in 1 .. Len(call.fed) : call.fed[j] >= 0 /\ call.fed[j] <= call.size
            /\ call.done =>
                  /\ SumSeq(call.fed) = call.n
                  /\ Len(call.fed) >= 1
                  /\ \A j \in 1 .. Len(call.fed) - 1 : call.fed[j] = call.size
                  /\ call.fed = hashmd_chunks(call.n, call.size))
    /\ <>(call.fn = "hashmd" => call.done)

\* C13 witness: 128 bytes were stretched out of a 64-byte digest, as two
\* whole slices
C13_Witness ==
    /\ call.fn = "hashmd"
    /\ call.done
    /\ call.n = 128
    /\ call.size = 64
    /\ call.fed = <<64, 64>>

\* the table of 3-byte groups of a scheme
PermOf(scheme) ==
    IF scheme = "md5" THEN MD5_PERM
    ELSE IF scheme = "sha256" THEN SHA256_PERM
    ELSE SHA512_PERM

EncodedLen(scheme) ==
    IF scheme = "md5" THEN 22 ELSE IF scheme = "sha256" THEN 43 ELSE 86

\* the 4-character groups (numbered from 1) in which two encodings differ;
\* the remainder group is the one after the last 3-byte group
DiffGroups(a, b) ==
    { ((p - 1) \div 4) + 1 : p \in { q \in 1 .. Len(a) : a[q] # b[q] } }

\* C14: in each scheme's final encoding every byte index of the digest is
\* consumed exactly once, by one 3-byte group of the table or by the
\* remainder group, and no index is out of range; so the encoded digest is
\* exactly 22, 43 and 86 characters long and changes whenever one digest
\* byte changes.
C14_EncodingCoversDigest ==
    (call.fn = "encode" /\ call.done) =>
        LET perm == PermOf(call.scheme)
            size == digest_size(call.scheme)
            occ == { gk \in (1 .. Len(perm)) \X (1 .. 3) : perm[gk[1]][gk[2]] = call.at }
        IN  /\ \A g \in 1 .. Len(perm) : \A k \in 1 .. 3 :
                  perm[g][k] >= 0 /\ perm[g][k] < size
            /\ Len(call.out) = EncodedLen(call.scheme)
            /\ Len(call.out2) = EncodedLen(call.scheme)
            /\ \A p \in 1 .. Len(call.out) :
                  \E a \in 1 .. 64 : call.out[p] = ALPHABET[a]
            /\ Cardinality(occ) <= 1
            /\ call.byte # call.md[call.at] =>
                  /\ call.out2 # call.out
                  /\ DiffGroups(call.out, call.out2) =
                        IF occ = {} THEN {Len(perm) + 1}
                        ELSE { gk[1] : gk \in occ }

\* C14 witness: byte 30 of a SHA-256 digest was replaced and only the
\* remainder group of the 43 characters changed
C14_Witness ==
    /\ call.fn = "encode"
    /\ call.done
    /\ call.scheme = "sha256"
    /\ call.at = 30
    /\ call.byte # call.md[30]
    /\ Len(call.out) = 43
    /\ DiffGroups(call.out, call.out2) = {11}

\* the colon-delimited fields of line i of a shadow file
FieldsOf(file, i) == split(file[i], 58)

\* the lines of a shadow file that belong to a user
LinesOf(file, u) == { i \in 1 .. Len(file) : FieldsOf(file, i)[1] = u }

HasRecord(file, u) == LinesOf(file, u) # {}

\* the record of a user: the first line with that username
RecordOf(file, u) == CHOOSE i \in LinesOf(file, u) : \A j \in LinesOf(file, u) : i <= j

\* the hashed-password field of a user's record
HashedOf(file, u) == FieldsOf(file, RecordOf(file, u))[2]

\* the account is locked: the hashed-password field starts with '!'
Locked(file, u) == HasRecord(file, u) /\ starts_with(HashedOf(file, u), <<33>>)

Modifying == {"update", "lock", "unlock", "delete"}

\* C15: shadow store locking.  A successful lock_account(u) leaves u
\* locked, whether u had a password or none; verify_password(u, p) fails
\* for every p while u is locked; u stays locked across every call other
\* than unlock_account(u), update_password(u, ..) and delete_password(u),
\* further lock_account(u) calls included; and locking a locked account
\* leaves its hashed-password field as it was.
C15_LockHolds ==
    [][ LET op == store_res'.op
            u == store_res'.user
        IN  /\ (op = "lock" /\ store_res'.st = "ok") => Locked(shadow', u)
            /\ (op = "verify" /\ Locked(shadow, u)) =>
                  (store_res'.st = "err" /\ Locked(shadow', u))
            /\ \A v \in StoreUsers :
                  (Locked(shadow, v) /\ ~(op \in {"unlock", "update", "delete"} /\ u = v))
                      => Locked(shadow', v)
            /\ (op = "lock" /\ Locked(shadow, u)) =>
                  HashedOf(shadow', u) = HashedOf(shadow, u)
      ]_vars

\* C15 witness: an account without a password was locked (its field is "!"
\* and its last-updated field was written by the call), and a verification
\* of it then failed
C15_Witness ==
    /\ store_res.op = "verify"
    /\ store_res.st = "err"
    /\ store_res.msg = "Password mismatch."
    /\ Locked(shadow, store_res.user)
    /\ HashedOf(shadow, store_res.user) = <<33>>
    /\ FieldsOf(shadow, RecordOf(shadow, store_res.user))[3] = to_string(20394)

\* C16: shadow store frame.  Each modifying function (update_password,
\* lock_account, unlock_account, delete_password) called for user u leaves
\* the record of every other user unchanged in all nine fields, and changes
\* in u's own record only the hashed-password and last-updated fields.
C16_StoreFrame ==
    [][ (store_res'.op \in Modifying /\ store_res'.st = "ok") =>
            LET u == store_res'.user
            IN  /\ Len(shadow') = Len(shadow)
                /\ \A i \in 1 .. Len(shadow) :
                      /\ Len(FieldsOf(shadow', i)) = 9
                      /\ FieldsOf(shadow, i)[1] # u => shadow'[i] = shadow[i]
                      /\ i = RecordOf(shadow, u) =>
                            \A f \in {1, 4, 5, 6, 7, 8, 9} :
                                FieldsOf(shadow', i)[f] = FieldsOf(shadow, i)[f]
      ]_vars

\* C17: the passwd command fails with "user '<name>' does not exist"
\* exactly when the shadow file holds no record whose username is the given
\* name; when there is such a record the run goes on to the password
\* prompts and the requested operation.
C17_UnknownUserRejected ==
    (cmd.pc \in {"auth", "operate", "exit"}) =>
        LET rejected == cmd.pc = "exit" /\ cmd.st = "err"
                        /\ cmd.msg = << "user '", cmd.username, "' does not exist" >>
        IN  rejected <=> ~HasRecord(cmd.before, cmd.username)

\* the run's target has a record with a hashed-password field and the caller
\* is not root
C18_Case ==
    /\ cmd.pc # "none"
    /\ cmd.uid # 0
    /\ HasRecord(cmd.before, cmd.username)
    /\ HashedOf(cmd.before, cmd.username) # <<>>

\* C18: authentication before modification.  In a run by a caller other
\* than root on an account with a hashed-password field, the shadow file is
\* not rewritten unless verify_password has succeeded in the run, and a run
\* that ends in a failed verification leaves the file as it was.
C18_AuthBeforeWrite ==
    C18_Case =>
        /\ (cmd.writes > 0 \/ shadow # cmd.before) => cmd.verified
        /\ (cmd.pc = "exit" /\ cmd.msg = <<"Authentication failure.">>) =>
              shadow = cmd.before

\* the case of C18 is never entered: no run on an account with a record
\* gets past the test of lines 58-60
C18_CaseNotReached ==
    C18_Case => cmd.pc \in {"start", "exit"} /\ ~cmd.verified /\ cmd.writes = 0

====
